---- MODULE Spec2Model ----
(***************************************************************************)
(* The task worker of the backend task scheduler (TaskWorker) and the      *)
(* table backstage_backend_common__tasks it shares with its siblings.      *)
(*                                                                         *)
(* Time is counted in seconds and observed at the granularity of the poll   *)
(* interval.  A worker instance may have several control loops, one per     *)
(* successful start() call; loop k of worker w is the one launched by the   *)
(* k-th start() call on w.                                                  *)
(***************************************************************************)
EXTENDS Integers, Sequences, FiniteSets, TLC

\* ---------------------------------------------------------------- bounds
\* The clock stops advancing after MaxTicks steps.
MaxTicks == 1
\* The worker instances together accept at most MaxStarts calls of start().
MaxStarts == 2

\* ------------------------------------------------------------- constants
\* const WORK_CHECK_FREQUENCY = Duration.fromObject({ seconds: 5 })
WORK_CHECK_FREQUENCY == 5

Workers == {"w1", "w2"}
TaskIds == {"t1"}
\* this.taskId of each worker: the workers are siblings polling the same task.
taskId == [w \in Workers |-> "t1"]

NULL == "null"
Undefined == "undefined"
NoRow == [absent |-> TRUE]
\* A ticket written by a sibling process on the shared table.
OtherTicket == "ticket-of-sibling"
\* A settings_json payload that JSON.parse rejects.
Garbage == <<"{">>
ParseError == [error |-> "parse"]

\* ------------------------------------------------------ settings, schema
\* The settings values the callers of start() pass in.  version 2 stands for
\* a definition the V1 schema rejects.
SettingsInputs ==
  { [version |-> 1, initialDelayDuration |-> Undefined],
    [version |-> 1, initialDelayDuration |-> "PT0S"],
    [version |-> 1, initialDelayDuration |-> "PT5S"],
    [version |-> 2, initialDelayDuration |-> Undefined] }

\* Duration.fromISO(...).as('seconds') of the durations in use.
Duration_fromISO(iso) ==
  CASE iso = "PT0S" -> 0
    [] iso = "PT5S" -> 5

IsDurationString(d) == d \in {"PT0S", "PT5S"}

\* taskSettingsV1Schema.parse succeeds.
taskSettingsV1Schema_parse(v) ==
  /\ v # ParseError
  /\ v.version = 1
  /\ v.initialDelayDuration = Undefined \/ IsDurationString(v.initialDelayDuration)

\* JSON.stringify of a settings object: the members in order, a member whose
\* value is undefined left out.
JSON_stringify(s) ==
  <<"{", <<"version", s.version>>>>
    \o (IF s.initialDelayDuration = Undefined
          THEN <<>>
          ELSE << <<"initialDelayDuration", s.initialDelayDuration>> >>)
    \o <<"}">>

\* JSON.parse: the object of a well-formed text, ParseError (a throw) otherwise.
JSON_parse(j) ==
  IF Len(j) >= 3 /\ j[1] = "{" /\ j[Len(j)] = "}"
    THEN LET member(key) == {i \in 2..(Len(j) - 1) : j[i][1] = key}
             value(key)  == IF member(key) = {}
                              THEN Undefined
                              ELSE j[CHOOSE i \in member(key) : TRUE][2]
         IN [version |-> value("version"),
             initialDelayDuration |-> value("initialDelayDuration")]
    ELSE ParseError

\* ---------------------------------------------------------- cancel token
\* A cancel token is its isCancelled flag.  CancelToken.create(): not cancelled.
CancelToken_create == FALSE
\* cancel(): sets the flag, for good, and resolves the token's promise.
CancelToken_cancel(token) == TRUE
\* Whether token.promise is resolved: as soon as, and only when, cancelled.
CancelToken_promiseResolved(token) == token

\* -------------------------------------------------- SimplePermissionHandler
\* AuthorizeResult.
ALLOW == "ALLOW"
DENY == "DENY"
MAYBE == "MAYBE"

\* identity?: BackstageIdentity when the caller passes none.
NoIdentity == [undefined |-> TRUE]
\* identity.id when the identity carries none.
NoId == [undefined |-> TRUE]
\* An entity reference string [<kind>:][<namespace>/]<name>, held by its
\* parts; a part that is not written is "".
RefStrings ==
  [kind : {"", "group"}, namespace : {"", "other"}, name : {"", "jane"}]
EmptyString == [kind |-> "", namespace |-> "", name |-> ""]

\* The identities a caller may come with.
Identities ==
  {NoIdentity} \cup {[id |-> NoId]} \cup {[id |-> r] : r \in RefStrings}

\* The permissions of the catalog, and the permissions requests may name.
CatalogPermission ==
  { [name |-> "catalog.entity.read", isRead |-> TRUE],
    [name |-> "catalog.entity.unregister", isRead |-> FALSE] }
Permissions ==
  CatalogPermission \cup
    { [name |-> "techdocs.read", isRead |-> TRUE],
      [name |-> "scaffolder.task.create", isRead |-> FALSE] }
Requests == [permission : Permissions]

\* The failure of a call: the promise rejects.
Rejected == [result |-> "rejected", error |-> "TypeError"]

\* parseEntityRef(ref, context): the parts of the reference, the missing
\* ones taken from the context; a reference without a name is rejected.
parseEntityRef(ref, context) ==
  IF ref.name = ""
    THEN Rejected
    ELSE [kind      |-> IF ref.kind = "" THEN context.defaultKind ELSE ref.kind,
          namespace |-> IF ref.namespace = ""
                          THEN context.defaultNamespace
                          ELSE ref.namespace,
          name      |-> ref.name]

\* The conditions of the catalog.
isEntityOwner(owners) == [rule |-> "IS_ENTITY_OWNER", params |-> <<owners>>]
hasAnnotation(annotation) == [rule |-> "HAS_ANNOTATION", params |-> <<annotation>>]
isEntityKind(kinds) == [rule |-> "IS_ENTITY_KIND", params |-> <<kinds>>]

\* A handler that lets every caller do everything.
handle_AllowsAll(request, identity) ==
  [result |-> ALLOW]

\* handle(request, identity).
handle(request, identity) ==
  IF identity # NoIdentity
    THEN [result |-> ALLOW]
  ELSE IF request.permission.isRead
    THEN [result |-> ALLOW]
  ELSE [result |-> DENY]

\* authorizeFilters(request, identity).
authorizeFilters(request, identity) ==
  IF request.permission \in CatalogPermission
    THEN IF identity = NoIdentity
           THEN [result |-> DENY]
           ELSE LET id == IF identity.id = NoId THEN EmptyString ELSE identity.id
                    owner == parseEntityRef(id, [defaultKind      |-> "user",
                                                 defaultNamespace |-> "default"])
                IN IF owner = Rejected
                     THEN Rejected
                     ELSE [result |-> MAYBE,
                           conditions |->
                             [anyOf |->
                                << [allOf |-> << isEntityOwner(<<owner>>),
                                                 hasAnnotation("backstage.io/view-url") >>],
                                   [allOf |-> << isEntityKind(<<"template">>) >>] >>]]
    ELSE [result |-> DENY]

\* No call of the permission handler has been made.
NoCall == [op |-> "none"]

\* ----------------------------------------------------------------- state
VARIABLES
  now,          \* the clock of the store (knex.fn.now()) and of the timers
  tasks,        \* the table backstage_backend_common__tasks, keyed by id
  cancelled,    \* this.cancelToken of each worker
  starting,     \* how many start() calls of each worker await persistTask, the
                \* store having executed their insert
  nStarts,      \* how many start() calls of each worker have returned
  startResult,  \* how the k-th start() call of each worker returned
  pc,           \* where the k-th control loop of each worker stands
  last,         \* what the poll step of that loop's current iteration found
  wakeAt,       \* when the timer of that loop's sleep fires (0: no timer)
  perm          \* the last call of the permission handler and its response

vars ==
  <<now, tasks, cancelled, starting, nStarts, startResult, pc, last, wakeAt, perm>>

Loops == 1..MaxStarts

\* The rows other processes may have left in the table before the workers
\* of this model are constructed.
PreexistingRows ==
  { [settings_json      |-> JSON_stringify([version |-> 1,
                                            initialDelayDuration |-> Undefined]),
     next_run_start_at  |-> 0,
     current_run_ticket |-> t] :
      t \in {NULL, OtherTicket} }

\* The payloads a sibling of a newer version stores for the task: one that
\* JSON.parse rejects, and one that parses and fails the V1 schema.
NewerPayloads ==
  { Garbage,
    JSON_stringify([version |-> 2, initialDelayDuration |-> Undefined]) }

\* How many start() calls the workers have received together.
RECURSIVE Sum(_, _)
Sum(f, S) ==
  IF S = {} THEN 0
  ELSE LET x == CHOOSE y \in S : TRUE IN f[x] + Sum(f, S \ {x})

TotalStarts == Sum(nStarts, Workers) + Sum(starting, Workers)

Init ==
  /\ now = 0
  /\ tasks \in [TaskIds -> {NoRow} \cup PreexistingRows]
  /\ cancelled = [w \in Workers |-> CancelToken_create]
  /\ starting = [w \in Workers |-> 0]
  /\ nStarts = [w \in Workers |-> 0]
  /\ startResult = [w \in Workers |-> [k \in Loops |-> "none"]]
  /\ pc = [w \in Workers |-> [k \in Loops |-> "none"]]
  /\ last = [w \in Workers |-> [k \in Loops |-> "none"]]
  /\ wakeAt = [w \in Workers |-> [k \in Loops |-> 0]]
  /\ perm = NoCall

\* ------------------------------------------------------------ operations
\* nowPlus(initialDelay, knex): the store's clock plus the delay.  An optional
\* duration is <<>> when undefined and <<seconds>> otherwise.
nowPlus(duration, t) ==
  IF duration = <<>> THEN t ELSE t + duration[1]

\* Variants of the upsert with a plausible slip, used to show that the
\* properties below depend on it.
\* The conflict is resolved by replacing the whole row.
Upsert_ReplacesRow(table, id, settings, t) ==
  [table EXCEPT ![id] =
     [settings_json      |-> JSON_stringify(settings),
      next_run_start_at  |-> t,
      current_run_ticket |-> NULL]]

\* The merge also takes next_run_start_at.
Upsert_MergesSchedule(table, id, settings, t) ==
  LET delay == IF settings.initialDelayDuration # Undefined
                 THEN Duration_fromISO(settings.initialDelayDuration)
                 ELSE 0
  IN [table EXCEPT ![id] =
        [settings_json      |-> JSON_stringify(settings),
         next_run_start_at  |-> t + delay,
         current_run_ticket |-> IF table[id] = NoRow
                                  THEN NULL
                                  ELSE table[id].current_run_ticket]]

\* The initial delay is dropped.
Upsert_IgnoresDelay(table, id, settings, t) ==
  IF table[id] = NoRow
    THEN [table EXCEPT ![id] =
            [settings_json      |-> JSON_stringify(settings),
             next_run_start_at  |-> t,
             current_run_ticket |-> NULL]]
    ELSE [table EXCEPT ![id].settings_json = JSON_stringify(settings)]

\* persistTask: insert ... onConflict('id').merge(['settings_json']).
Upsert(table, id, settings, t) ==
  LET initialDelay == IF settings.initialDelayDuration # Undefined
                        THEN <<Duration_fromISO(settings.initialDelayDuration)>>
                        ELSE <<>>
  IN IF table[id] = NoRow
       THEN [table EXCEPT ![id] =
               [settings_json      |-> JSON_stringify(settings),
                next_run_start_at  |-> nowPlus(initialDelay, t),
                current_run_ticket |-> NULL]]
       ELSE [table EXCEPT ![id].settings_json = JSON_stringify(settings)]

\* The loop condition does not look at the cancel token.
LoopCheck_IgnoresCancel(w) == "query"

\* runLoop's while (!this.cancelToken.isCancelled), as it is read at the
\* launch and after every sleep: where the loop goes from there.  Cancelled,
\* runLoop returns; otherwise it enters runOnce and findReadyTask, which
\* issues its select, all before the next await.
LoopCheck(w) == IF cancelled[w] THEN "stopped" ELSE "query"

\* start(settings) when taskSettingsV1Schema.parse(settings) throws.
StartInvalid(w, settings) ==
  /\ TotalStarts < MaxStarts
  /\ ~taskSettingsV1Schema_parse(settings)
  /\ nStarts' = [nStarts EXCEPT ![w] = @ + 1]
  /\ startResult' = [startResult EXCEPT ![w][nStarts[w] + 1] = "InvalidSettings"]
  /\ UNCHANGED <<now, tasks, cancelled, pc, last, wakeAt, perm, starting>>

\* The failure of the insert is swallowed and the loop launched all the same.
StartPersistFails_StillLaunches(w, settings) ==
  /\ TotalStarts < MaxStarts
  /\ taskSettingsV1Schema_parse(settings)
  /\ nStarts' = [nStarts EXCEPT ![w] = @ + 1]
  /\ startResult' = [startResult EXCEPT ![w][nStarts[w] + 1] = "PersistenceFailure"]
  /\ pc' = [pc EXCEPT ![w][nStarts[w] + 1] = LoopCheck(w)]
  /\ UNCHANGED <<now, tasks, cancelled, last, wakeAt, perm, starting>>

\* start(settings) when the insert throws: 'Failed to persist task, ...'.
\* Nothing is written, and the call returns with the failure.
StartPersistFails(w, settings) ==
  /\ TotalStarts < MaxStarts
  /\ taskSettingsV1Schema_parse(settings)
  /\ nStarts' = [nStarts EXCEPT ![w] = @ + 1]
  /\ startResult' = [startResult EXCEPT ![w][nStarts[w] + 1] = "PersistenceFailure"]
  /\ UNCHANGED <<now, tasks, cancelled, pc, last, wakeAt, perm, starting>>

\* start(settings) up to its await: persistTask parses the settings and
\* issues the insert, and the store executes it.  start() stays suspended
\* at await this.persistTask(settings); no loop exists yet.
StartPersist(w, settings) ==
  /\ TotalStarts < MaxStarts
  /\ taskSettingsV1Schema_parse(settings)
  /\ tasks' = Upsert(tasks, taskId[w], settings, now)
  /\ starting' = [starting EXCEPT ![w] = @ + 1]
  /\ UNCHANGED <<now, cancelled, nStarts, startResult, pc, last, wakeAt, perm>>

\* start() makes a fresh cancel token for the loop it launches.
StartLaunch_FreshToken(w) ==
  /\ starting[w] > 0
  /\ starting' = [starting EXCEPT ![w] = @ - 1]
  /\ nStarts' = [nStarts EXCEPT ![w] = @ + 1]
  /\ startResult' = [startResult EXCEPT ![w][nStarts[w] + 1] = "ok"]
  /\ pc' = [pc EXCEPT ![w][nStarts[w] + 1] = "query"]
  /\ cancelled' = [cancelled EXCEPT ![w] = CancelToken_create]
  /\ UNCHANGED <<now, tasks, last, wakeAt, perm>>

\* The await of persistTask resumes: start() calls runLoop, which runs up
\* to its first await before start() returns.
StartLaunch(w) ==
  /\ starting[w] > 0
  /\ starting' = [starting EXCEPT ![w] = @ - 1]
  /\ nStarts' = [nStarts EXCEPT ![w] = @ + 1]
  /\ startResult' = [startResult EXCEPT ![w][nStarts[w] + 1] = "ok"]
  /\ pc' = [pc EXCEPT ![w][nStarts[w] + 1] = LoopCheck(w)]
  /\ UNCHANGED <<now, tasks, cancelled, last, wakeAt, perm>>

\* stop(): this.cancelToken.cancel().
Stop(w) ==
  /\ cancelled' = [cancelled EXCEPT ![w] = CancelToken_cancel(@)]
  /\ UNCHANGED <<now, tasks, nStarts, startResult, pc, last, wakeAt, perm, starting>>

\* The query takes a row whose time has just come (<= for <).
ReadyRows_DueAtNow(table, id, t) ==
  IF /\ table[id] # NoRow
     /\ table[id].next_run_start_at <= t
     /\ table[id].current_run_ticket = NULL
    THEN {table[id]}
    ELSE {}

\* The rows the query of findReadyTask selects.
ReadyRows(table, id, t) ==
  IF /\ table[id] # NoRow
     /\ table[id].next_run_start_at < t
     /\ table[id].current_run_ticket = NULL
    THEN {table[id]}
    ELSE {}

\* A failed read is taken for unparsable settings.
FindResult_FetchFailAborts(failed, rows) ==
  IF failed THEN "abort"
  ELSE IF rows = {} THEN "no rows"
  ELSE LET settingsJson == (CHOOSE r \in rows : TRUE).settings_json
       IN IF taskSettingsV1Schema_parse(JSON_parse(settingsJson))
            THEN "ready"
            ELSE "abort"

\* Settings that cannot be read back are taken for a task not yet ready.
FindResult_ParseFailRetries(failed, rows) ==
  IF failed THEN "fetch failed"
  ELSE IF rows = {} THEN "no rows"
  ELSE LET settingsJson == (CHOOSE r \in rows : TRUE).settings_json
       IN IF taskSettingsV1Schema_parse(JSON_parse(settingsJson))
            THEN "ready"
            ELSE "no rows"

\* findReadyTask once the store has answered (or failed to), given the rows.
FindResult(failed, rows) ==
  IF failed THEN "fetch failed"
  ELSE IF rows = {} THEN "no rows"
  ELSE LET settingsJson == (CHOOSE r \in rows : TRUE).settings_json
       IN IF taskSettingsV1Schema_parse(JSON_parse(settingsJson))
            THEN "ready"
            ELSE "abort"

\* The result of runOnce for what findReadyTask found.
RunResult(found) ==
  CASE found = "fetch failed" -> "not ready yet"
    [] found = "no rows"      -> "not ready yet"
    [] found = "abort"        -> "abort"
    [] found = "ready"        -> "completed"
    [] OTHER                  -> "none"

\* The store evaluates the select of findReadyTask, against the table and
\* its clock as they are then, or fails; the response is on its way and the
\* loop still suspended at its await.  last holds what findReadyTask will
\* make of the response.
StoreSelect(w, k, failed) ==
  /\ pc[w][k] = "query"
  /\ pc' = [pc EXCEPT ![w][k] = "fetched"]
  /\ last' = [last EXCEPT ![w][k] =
                FindResult(failed, ReadyRows(tasks, taskId[w], now))]
  /\ UNCHANGED <<now, tasks, cancelled, nStarts, startResult, wakeAt, perm, starting>>

\* A failed read ends the loop like unreadable settings do.
FindReadyTask_StopsOnFailure(w, k) ==
  /\ pc[w][k] = "fetched"
  /\ LET found == last[w][k]
         ended == found \in {"abort", "fetch failed"}
         asleep == ~ended /\ ~CancelToken_promiseResolved(cancelled[w])
     IN /\ pc' = [pc EXCEPT ![w][k] =
                    IF ended THEN "stopped"
                    ELSE IF asleep THEN "sleep" ELSE LoopCheck(w)]
        /\ wakeAt' = [wakeAt EXCEPT ![w][k] =
                        IF asleep THEN now + WORK_CHECK_FREQUENCY ELSE 0]
        /\ last' = [last EXCEPT ![w][k] =
                      IF ended \/ asleep THEN found ELSE "none"]
  /\ UNCHANGED <<now, tasks, cancelled, nStarts, startResult, perm, starting>>

\* runOnce with a ready task moves the schedule of the record on.
FindReadyTask_Reschedules(w, k) ==
  /\ pc[w][k] = "fetched"
  /\ LET found == last[w][k]
         ended == RunResult(found) = "abort"
         asleep == ~ended /\ ~CancelToken_promiseResolved(cancelled[w])
     IN /\ pc' = [pc EXCEPT ![w][k] =
                    IF ended THEN "stopped"
                    ELSE IF asleep THEN "sleep" ELSE LoopCheck(w)]
        /\ wakeAt' = [wakeAt EXCEPT ![w][k] =
                        IF asleep THEN now + WORK_CHECK_FREQUENCY ELSE 0]
        /\ last' = [last EXCEPT ![w][k] =
                      IF ended \/ asleep THEN found ELSE "none"]
        /\ tasks' = IF found = "ready" /\ tasks[taskId[w]] # NoRow
                      THEN [tasks EXCEPT ![taskId[w]].next_run_start_at =
                                            now + WORK_CHECK_FREQUENCY]
                      ELSE tasks
  /\ UNCHANGED <<now, cancelled, nStarts, startResult, perm, starting>>

\* The response reaches the process and the await of findReadyTask resumes.
\* findReadyTask returns; runOnce returns its result, or 'completed' for a
\* ready task, to runLoop, which returns on 'abort' and otherwise calls
\* sleep, whose timer is set by the clock of that moment.  When the cancel
\* token's promise is resolved already the race of sleep is decided as it
\* is made: the await resumes without a wait, the iteration ends and the
\* loop condition is read.  No store operation and no timer lies between
\* these steps of the code.
FindReadyTask(w, k) ==
  /\ pc[w][k] = "fetched"
  /\ LET found == last[w][k]
         ended == RunResult(found) = "abort"
         asleep == ~ended /\ ~CancelToken_promiseResolved(cancelled[w])
     IN /\ pc' = [pc EXCEPT ![w][k] =
                    IF ended THEN "stopped"
                    ELSE IF asleep THEN "sleep" ELSE LoopCheck(w)]
        /\ wakeAt' = [wakeAt EXCEPT ![w][k] =
                        IF asleep THEN now + WORK_CHECK_FREQUENCY ELSE 0]
        /\ last' = [last EXCEPT ![w][k] =
                      IF ended \/ asleep THEN found ELSE "none"]
  /\ UNCHANGED <<now, tasks, cancelled, nStarts, startResult, perm, starting>>

\* The sleep returns without waiting for the timer or the cancel token.
SleepWake_NoWait(w, k) ==
  /\ pc[w][k] = "sleep"
  /\ pc' = [pc EXCEPT ![w][k] = LoopCheck(w)]
  /\ wakeAt' = [wakeAt EXCEPT ![w][k] = 0]
  /\ last' = [last EXCEPT ![w][k] = "none"]
  /\ UNCHANGED <<now, tasks, cancelled, nStarts, startResult, perm, starting>>

\* sleep: the race of the timer and the cancel token's promise is decided;
\* the await of runLoop resumes, the iteration ends (its runResult goes out
\* of scope) and the loop condition is read.
SleepWake(w, k) ==
  /\ pc[w][k] = "sleep"
  /\ CancelToken_promiseResolved(cancelled[w]) \/ now >= wakeAt[w][k]
  /\ pc' = [pc EXCEPT ![w][k] = LoopCheck(w)]
  /\ wakeAt' = [wakeAt EXCEPT ![w][k] = 0]
  /\ last' = [last EXCEPT ![w][k] = "none"]
  /\ UNCHANGED <<now, tasks, cancelled, nStarts, startResult, perm, starting>>

\* A sibling process of a newer version redefines the task: it replaces the
\* settings_json of the record ('a newer version of the task has been issued
\* and being handled by other workers').
SiblingRedefines(id, payload) ==
  /\ tasks[id] # NoRow
  /\ tasks' = [tasks EXCEPT ![id].settings_json = payload]
  /\ UNCHANGED <<now, cancelled, nStarts, startResult, pc, last, wakeAt, perm, starting>>

\* One poll interval of time passes.
Tick ==
  /\ now < MaxTicks * WORK_CHECK_FREQUENCY
  /\ now' = now + WORK_CHECK_FREQUENCY
  /\ UNCHANGED <<tasks, cancelled, nStarts, startResult, pc, last, wakeAt, perm, starting>>

Next ==
  \/ \E w \in Workers, s \in SettingsInputs : StartInvalid(w, s)
  \/ \E w \in Workers, s \in SettingsInputs : StartPersistFails(w, s)
  \/ \E w \in Workers, s \in SettingsInputs : StartPersist(w, s)
  \/ \E w \in Workers : StartLaunch(w)
  \/ \E w \in Workers : Stop(w)
  \/ \E w \in Workers, k \in Loops, failed \in BOOLEAN : StoreSelect(w, k, failed)
  \/ \E w \in Workers, k \in Loops : FindReadyTask(w, k)
  \/ \E w \in Workers, k \in Loops : SleepWake(w, k)
  \/ \E id \in TaskIds, payload \in NewerPayloads : SiblingRedefines(id, payload)
  \/ Tick

Spec == Init /\ [][Next]_vars

\* The step loop k of worker w can take next: the continuation of runLoop
\* after its pending promise (the store's answer, the sleep's race) settles.
LoopStep(w, k) ==
  \/ \E failed \in BOOLEAN : StoreSelect(w, k, failed)
  \/ FindReadyTask(w, k)
  \/ SleepWake(w, k)

\* The event loop runs every continuation that stays ready, and every store
\* operation in progress completes.
FairSpec == Spec /\ \A w \in Workers : \A k \in Loops : WF_vars(LoopStep(w, k))

\* --------------------------------------- the permission handler, called
\* A caller calls handle and gets its response.
Handle(request, identity) ==
  /\ perm' = [op |-> "handle", request |-> request, identity |-> identity,
              response |-> handle(request, identity)]
  /\ UNCHANGED <<now, tasks, cancelled, nStarts, startResult, pc, last, wakeAt, starting>>

\* A caller calls authorizeFilters and gets its response.
AuthorizeFilters(request, identity) ==
  /\ perm' = [op |-> "authorizeFilters", request |-> request,
              identity |-> identity,
              response |-> authorizeFilters(request, identity)]
  /\ UNCHANGED <<now, tasks, cancelled, nStarts, startResult, pc, last, wakeAt, starting>>

PermNext ==
  \/ \E request \in Requests, identity \in Identities : Handle(request, identity)
  \/ \E request \in Requests, identity \in Identities :
       AuthorizeFilters(request, identity)

PermSpec == Init /\ [][PermNext]_vars

\* ---------------------------------------------------------------- claims
Row(w) == tasks[taskId[w]]
ValidInputs == {s \in SettingsInputs : taskSettingsV1Schema_parse(s)}
\* The initial delay of settings in seconds, 0 when absent.
DelayOf(s) ==
  IF s.initialDelayDuration = Undefined
    THEN 0
    ELSE Duration_fromISO(s.initialDelayDuration)

\* C1: at most one worker instance is in Executing (the store has found the
\* task ready for it and its step is not yet finished) for one task at any
\* time; every other instance polling in that eligible window gets
\* not-ready.
C1_AtMostOneExecuting ==
  \A w1, w2 \in Workers : \A k1, k2 \in Loops :
    ( /\ pc[w1][k1] = "fetched" /\ last[w1][k1] = "ready"
      /\ pc[w2][k2] = "fetched" /\ last[w2][k2] = "ready"
      /\ taskId[w1] = taskId[w2] ) => w1 = w2

\* C2: a poll step that has found a ready row sets current_run_ticket to a
\* non-null token before it runs the task: whenever a loop stands where
\* the store has found the task ready for it and runOnce is to run it, the
\* ticket of the record is not null.
C2_ClaimBeforeRun ==
  \A w \in Workers : \A k \in Loops :
    (pc[w][k] = "fetched" /\ last[w][k] = "ready")
      => Row(w).current_run_ticket # NULL

\* C3: the step that ends a run (runOnce returns 'completed') updates the
\* record: it recomputes next_run_start_at and leaves the ticket null.
C3_ReleaseAfterRun ==
  [][ \A w \in Workers : \A k \in Loops :
        (FindReadyTask(w, k) /\ RunResult(last[w][k]) = "completed")
          => /\ Row(w)'.current_run_ticket = NULL
             /\ Row(w)'.next_run_start_at # Row(w).next_run_start_at ]_vars

\* C4: start(s2) on a task id whose record exists changes settings_json to s2
\* and leaves next_run_start_at and current_run_ticket as they were, also
\* when another worker holds the ticket.
C4_RedefinitionKeepsSchedule ==
  [][ \A w \in Workers : \A s \in ValidInputs :
        (StartPersist(w, s) /\ Row(w) # NoRow)
          => /\ JSON_parse(Row(w)'.settings_json) = s
             /\ Row(w)'.next_run_start_at = Row(w).next_run_start_at
             /\ Row(w)'.current_run_ticket = Row(w).current_run_ticket ]_vars

\* A record whose ticket a sibling holds has been redefined by a start().
C4_Witness ==
  /\ tasks["t1"] # NoRow
  /\ tasks["t1"].current_run_ticket = OtherTicket
  /\ tasks["t1"].settings_json =
       JSON_stringify([version |-> 1, initialDelayDuration |-> "PT5S"])
  /\ now > 0

\* C5: once stop() has been called on a worker, none of its loops begins a
\* poll; a loop at its cancellation check exits there, a sleep in progress can
\* end at once whatever is left of the poll interval, and a poll in progress
\* is left to finish, the loop exiting when the response has come.
C5_NoPollAfterStop ==
  /\ [][ \A w \in Workers : \A k \in Loops :
           cancelled[w] =>
             /\ (pc[w][k] # "query") => (pc'[w][k] # "query")
             /\ (pc[w][k] \in {"none", "sleep", "fetched"} /\ pc'[w][k] # pc[w][k])
                  => pc'[w][k] = "stopped"
             /\ (pc[w][k] = "query" /\ pc'[w][k] # "query")
                  => pc'[w][k] = "fetched" ]_vars
  /\ [](\A w \in Workers : \A k \in Loops :
          cancelled[w] =>
            /\ (pc[w][k] = "sleep") => ENABLED SleepWake(w, k)
            /\ (pc[w][k] = "query") => ENABLED StoreSelect(w, k, FALSE)
            /\ (pc[w][k] = "fetched") => ENABLED FindReadyTask(w, k))

\* stop() was called on a worker with one loop in a sleep whose timer has
\* not fired and another loop already exited at its cancellation check.
C5_Witness ==
  \E w \in Workers : \E k1, k2 \in Loops :
    /\ cancelled[w]
    /\ pc[w][k1] = "sleep" /\ now < wakeAt[w][k1]
    /\ pc[w][k2] = "stopped" /\ last[w][k2] = "none"

\* C6: the poll step that finds the record of a task started with a zero
\* initial delay leaves next_run_start_at in the future when it has run the
\* task.
C6_RunLeavesFutureSchedule ==
  \A w \in Workers : \A k \in Loops :
    ( /\ pc[w][k] = "sleep"
      /\ RunResult(last[w][k]) = "completed"
      /\ wakeAt[w][k] = now + WORK_CHECK_FREQUENCY )
      => Row(w).next_run_start_at > now

\* C7: start(settings) on a task id without a record inserts the record with
\* the given settings, next_run_start_at = now + initialDelayDuration (now
\* when absent) and a null ticket.
C7_InsertOnFirstStart ==
  [][ \A w \in Workers : \A s \in ValidInputs :
        (StartPersist(w, s) /\ Row(w) = NoRow)
          => /\ Row(w)' # NoRow
             /\ JSON_parse(Row(w)'.settings_json) = s
             /\ Row(w)'.next_run_start_at = now + DelayOf(s)
             /\ Row(w)'.current_run_ticket = NULL ]_vars

\* A record inserted with a delay of five seconds at the last tick of the
\* clock (no other start() leaves this next_run_start_at).
C7_Witness ==
  /\ tasks["t1"] # NoRow
  /\ tasks["t1"].settings_json =
       JSON_stringify([version |-> 1, initialDelayDuration |-> "PT5S"])
  /\ tasks["t1"].next_run_start_at = (MaxTicks + 1) * WORK_CHECK_FREQUENCY
  /\ tasks["t1"].current_run_ticket = NULL

\* C8: a further start(s) with the settings the record was created with
\* leaves the record (settings_json, next_run_start_at, current_run_ticket)
\* as the first start(s) left it, whenever it is called and whatever polls
\* lie in between.
C8_StartIdempotent ==
  [][ \A w \in Workers : \A s \in ValidInputs :
        ( /\ StartPersist(w, s)
          /\ Row(w) # NoRow
          /\ Row(w).settings_json = JSON_stringify(s) )
          => tasks' = tasks ]_vars

\* Two start() calls have succeeded on a record that the first of them
\* inserted with a delay of five seconds (at the last tick of the clock: no
\* other start() leaves this next_run_start_at) and that still holds those
\* settings, the first loop having polled in between.
C8_Witness ==
  /\ startResult["w1"][1] = "ok"
  /\ startResult["w1"][2] = "ok"
  /\ tasks["t1"].settings_json =
       JSON_stringify([version |-> 1, initialDelayDuration |-> "PT5S"])
  /\ tasks["t1"].next_run_start_at = (MaxTicks + 1) * WORK_CHECK_FREQUENCY
  /\ pc["w1"][1] = "sleep" /\ last["w1"][1] = "no rows"
  /\ pc["w1"][2] = "query"

\* C9: a control loop exists, and so polls, only for a start() that returned
\* normally, after its upsert; a start() that fails, on validation or on the
\* upsert, writes nothing to the store and launches no loop.
C9_LoopOnlyAfterPersist ==
  /\ [][ \A w \in Workers :
           /\ ( /\ nStarts'[w] # nStarts[w]
                /\ startResult'[w][nStarts'[w]] # "ok" )
                => (tasks' = tasks /\ pc' = pc)
           /\ \A k \in Loops :
                (pc[w][k] = "none" /\ pc'[w][k] # "none")
                  => /\ starting[w] > 0 /\ Row(w) # NoRow
                     /\ startResult'[w][k] = "ok" ]_vars
  /\ [](\A w \in Workers : \A k \in Loops :
          /\ (pc[w][k] # "none") => (startResult[w][k] = "ok" /\ Row(w) # NoRow)
          /\ (startResult[w][k] \in {"InvalidSettings", "PersistenceFailure"})
               => (pc[w][k] = "none" /\ last[w][k] = "none"))

\* One start() failed on validation and one on the upsert; nothing is stored
\* and no loop exists.
C9_Witness ==
  /\ startResult["w1"][1] = "InvalidSettings"
  /\ startResult["w1"][2] = "PersistenceFailure"
  /\ tasks["t1"] = NoRow
  /\ \A w \in Workers : \A k \in Loops : pc[w][k] = "none"

\* C10: a poll step whose store read fails yields 'not ready yet' and writes
\* nothing; the loop then sleeps one poll interval (a sleep that ends as it
\* begins when stop() was called already), leaves the sleep only when the
\* interval has elapsed or stop() was called, and unless stop() was called
\* polls again; it never stops for the failure.
C10_ReadFailureRetried ==
  /\ [][ \A w \in Workers : \A k \in Loops :
           /\ StoreSelect(w, k, TRUE)
                => /\ last'[w][k] = "fetch failed"
                   /\ pc'[w][k] = "fetched"
                   /\ tasks' = tasks
           /\ (FindReadyTask(w, k) /\ last[w][k] = "fetch failed")
                => /\ RunResult(last[w][k]) = "not ready yet"
                   /\ pc'[w][k] = (IF cancelled[w] THEN "stopped" ELSE "sleep")
                   /\ (~cancelled[w])
                        => /\ wakeAt'[w][k] = now + WORK_CHECK_FREQUENCY
                           /\ last'[w][k] = "fetch failed"
                   /\ tasks' = tasks
           /\ (pc[w][k] = "sleep" /\ last[w][k] = "fetch failed" /\ pc'[w][k] # "sleep")
                => /\ cancelled[w] \/ now >= wakeAt[w][k]
                   /\ pc'[w][k] = (IF cancelled[w] THEN "stopped" ELSE "query") ]_vars
  /\ [](\A w \in Workers : \A k \in Loops :
          /\ (pc[w][k] = "fetched") => ENABLED FindReadyTask(w, k)
          /\ (pc[w][k] = "sleep" /\ now >= wakeAt[w][k]) => ENABLED SleepWake(w, k)
          /\ (pc[w][k] = "stopped" /\ ~cancelled[w]) => last[w][k] = "abort")

\* The read of a poll failed at the last tick of the clock on a record that
\* was due, stop() was not called, and the loop sleeps.
C10_Witness ==
  \E w \in Workers : \E k \in Loops :
    /\ pc[w][k] = "sleep"
    /\ last[w][k] = "fetch failed"
    /\ wakeAt[w][k] = (MaxTicks + 1) * WORK_CHECK_FREQUENCY
    /\ ReadyRows(tasks, taskId[w], now) # {}
    /\ ~cancelled[w]

\* C11: a poll step that reads a due, unclaimed record whose settings_json
\* does not parse or does not pass the schema yields 'abort'; the loop is
\* Stopped at once, with no sleep and no timer, nothing written to the store
\* and no start() outcome changed, and it never leaves Stopped.
C11_UnreadableSettingsAbort ==
  [][ \A w \in Workers : \A k \in Loops :
        /\ ( /\ StoreSelect(w, k, FALSE)
             /\ ReadyRows(tasks, taskId[w], now) # {}
             /\ ~taskSettingsV1Schema_parse(JSON_parse(Row(w).settings_json)) )
             => /\ RunResult(last'[w][k]) = "abort"
                /\ tasks' = tasks
        /\ (FindReadyTask(w, k) /\ last[w][k] = "abort")
             => /\ RunResult(last'[w][k]) = "abort"
                /\ pc'[w][k] = "stopped"
                /\ wakeAt'[w][k] = 0
                /\ tasks' = tasks
                /\ startResult' = startResult
        /\ (pc[w][k] = "stopped") => (pc'[w][k] = "stopped") ]_vars

\* A loop has stopped on a record whose settings a sibling replaced, its
\* worker not having been stopped.
C11_Witness ==
  \E w \in Workers : \E k \in Loops :
    /\ pc[w][k] = "stopped"
    /\ last[w][k] = "abort"
    /\ ~cancelled[w]
    /\ Row(w).settings_json \in NewerPayloads
    /\ now = WORK_CHECK_FREQUENCY

\* C12: a run, whether the work function returned or threw, ends with the
\* step yielding 'completed', the loop going to sleep (or, stop() called
\* already, through the sleep to Stopped), the ticket null and
\* next_run_start_at advanced beyond the value the poll found.
C12_RunAdvancesSchedule ==
  [][ \A w \in Workers : \A k \in Loops :
        (FindReadyTask(w, k) /\ last[w][k] = "ready")
          => /\ RunResult(last[w][k]) = "completed"
             /\ pc'[w][k] = (IF cancelled[w] THEN "stopped" ELSE "sleep")
             /\ Row(w)'.current_run_ticket = NULL
             /\ Row(w)'.next_run_start_at > Row(w).next_run_start_at ]_vars

\* C13: within one worker instance at most one poll step is in progress at
\* any time, whatever start() and stop() calls were made on it.
C13_PollsSequential ==
  \A w \in Workers :
    Cardinality({ k \in Loops : pc[w][k] \in {"query", "fetched"} }) <= 1

\* C14: a loop reaches Stopped only at the cancellation check of a
\* cancelled worker (made at the launch or at the end of a sleep, one that
\* ends as it begins included) or from a poll step that yielded 'abort'; a
\* step that yielded 'not ready yet' (a failed read included) or 'completed'
\* sends the loop of a worker not cancelled to sleep, and a stopped loop is
\* one whose worker is cancelled or whose last step aborted.
C14_StoppedOnlyByStopOrAbort ==
  /\ [][ \A w \in Workers : \A k \in Loops :
           /\ (pc[w][k] # "stopped" /\ pc'[w][k] = "stopped")
                => \/ pc[w][k] \in {"none", "sleep", "fetched"} /\ cancelled[w]
                   \/ pc[w][k] = "fetched" /\ RunResult(last[w][k]) = "abort"
           /\ StoreSelect(w, k, TRUE)
                => RunResult(last'[w][k]) = "not ready yet" /\ pc'[w][k] = "fetched"
           /\ (FindReadyTask(w, k) /\ ~cancelled[w]
                 /\ RunResult(last[w][k]) \in {"not ready yet", "completed"})
                => pc'[w][k] = "sleep" /\ last'[w][k] = last[w][k] ]_vars
  /\ [](\A w \in Workers : \A k \in Loops :
          pc[w][k] = "stopped" => cancelled[w] \/ RunResult(last[w][k]) = "abort")

\* One loop stopped by an aborted step with its worker never stopped, while
\* a loop of another worker ended at the cancellation check after stop().
C14_Witness ==
  \E w, v \in Workers : \E k, j \in Loops :
    /\ w # v
    /\ pc[w][k] = "stopped" /\ ~cancelled[w] /\ last[w][k] = "abort"
    /\ pc[v][j] = "stopped" /\ cancelled[v] /\ last[v][j] = "none"
    /\ now = WORK_CHECK_FREQUENCY

\* C15: a poll step reports the task ready only when, as the store
\* evaluates its select, the record exists, its next_run_start_at is
\* strictly before the current time and its current_run_ticket is null;
\* when there is no record, or it is not yet due, or a ticket is held, the
\* step yields 'not ready yet' and the loop, unless stop() was called,
\* sleeps.
C15_ReadyOnlyWhenDueAndFree ==
  [][ \A w \in Workers : \A k \in Loops :
        LET due == /\ tasks[taskId[w]] # NoRow
                   /\ Row(w).next_run_start_at < now
                   /\ Row(w).current_run_ticket = NULL
        IN /\ (last[w][k] # "ready" /\ last'[w][k] = "ready")
                => due /\ StoreSelect(w, k, FALSE)
           /\ (FindReadyTask(w, k) /\ RunResult(last[w][k]) = "completed")
                => last[w][k] = "ready"
           /\ \A failed \in BOOLEAN :
                (StoreSelect(w, k, failed) /\ ~due)
                  => RunResult(last'[w][k]) = "not ready yet"
           /\ (FindReadyTask(w, k) /\ RunResult(last[w][k]) = "not ready yet")
                => pc'[w][k] = (IF cancelled[w] THEN "stopped" ELSE "sleep") ]_vars

\* At one and the same time a loop found the task ready, and another loop
\* that had polled at the very instant the task fell due sleeps on
\* 'not ready yet'.
C15_Witness ==
  \E w, v \in Workers : \E k, j \in Loops :
    /\ pc[w][k] = "fetched" /\ last[w][k] = "ready"
    /\ pc[v][j] = "sleep" /\ last[v][j] = "no rows"
    /\ wakeAt[v][j] = Row(v).next_run_start_at + WORK_CHECK_FREQUENCY
    /\ Row(w).current_run_ticket = NULL
    /\ Row(w).next_run_start_at < now

\* C16: a loop goes poll, sleep, cancellation check, poll: a poll begins only
\* at the launch or at the end of a sleep, and only with the worker not
\* cancelled, a poll that does not end the loop ends in a sleep set for the
\* whole WORK_CHECK_FREQUENCY, a sleep ends only when that time has come or
\* the worker is cancelled, and a cancelled worker stays cancelled; so the
\* sleep before a poll ended by its timer, and a sleep ended by cancellation
\* is followed by no poll.
C16_OneFullSleepBetweenPolls ==
  [][ \A w \in Workers : \A k \in Loops :
        /\ (pc[w][k] # "query" /\ pc'[w][k] = "query")
             => pc[w][k] \in {"none", "sleep"} /\ ~cancelled[w]
        /\ (pc[w][k] = "query" /\ pc'[w][k] # "query") => pc'[w][k] = "fetched"
        /\ (pc[w][k] = "fetched" /\ pc'[w][k] # "fetched")
             => pc'[w][k] \in {"sleep", "stopped"}
        /\ (pc[w][k] # "sleep" /\ pc'[w][k] = "sleep")
             => wakeAt'[w][k] = now + WORK_CHECK_FREQUENCY
        /\ (pc[w][k] = "sleep" /\ pc'[w][k] = "sleep")
             => wakeAt'[w][k] = wakeAt[w][k]
        /\ (pc[w][k] = "sleep" /\ pc'[w][k] # "sleep")
             => /\ pc'[w][k] = (IF cancelled[w] THEN "stopped" ELSE "query")
                /\ (~cancelled[w]) => now >= wakeAt[w][k]
                /\ cancelled'[w] = cancelled[w]
        /\ cancelled[w] => cancelled'[w] ]_vars

\* A loop whose sleep after a poll has lasted the full interval and whose
\* worker is not cancelled, beside a loop of a cancelled worker asleep
\* with its timer still to fire.
C16_Witness ==
  \E w, v \in Workers : \E k, j \in Loops :
    /\ pc[w][k] = "sleep" /\ ~cancelled[w] /\ last[w][k] = "no rows"
    /\ wakeAt[w][k] = WORK_CHECK_FREQUENCY /\ now >= wakeAt[w][k]
    /\ pc[v][j] = "sleep" /\ cancelled[v] /\ now < wakeAt[v][j]

\* C17: stop() leaves every loop where it is (a query in progress stays in
\* progress and is answered as it would have been), and once stop() has been
\* called every launched loop of the worker eventually reaches Stopped.
C17_StopEventuallyStops ==
  /\ [][ \A w \in Workers :
           Stop(w) => pc' = pc /\ last' = last /\ wakeAt' = wakeAt /\ tasks' = tasks ]_vars
  /\ [](\A w \in Workers : \A k \in Loops :
          cancelled[w] =>
            /\ (pc[w][k] = "query") => ENABLED StoreSelect(w, k, FALSE)
            /\ (pc[w][k] = "fetched") => ENABLED FindReadyTask(w, k))
  /\ \A w \in Workers : \A k \in Loops :
       (cancelled[w] /\ pc[w][k] # "none") ~> (pc[w][k] = "stopped")

\* stop() has been called on a worker while the query of one of its loops is
\* in progress and another of its loops is asleep after a poll.
C17_Witness ==
  \E w \in Workers : \E k1, k2 \in Loops :
    /\ cancelled[w]
    /\ pc[w][k1] = "query"
    /\ pc[w][k2] = "sleep" /\ last[w][k2] \in {"no rows", "fetch failed", "ready"}

\* C18: once stop() has been called on a worker the worker stays cancelled
\* whatever is called on it; another stop() changes nothing; a start() on it
\* still upserts the settings and returns normally, the loop it launches
\* ending at its first cancellation check, and every loop of the worker
\* that is asleep can only leave the sleep to Stopped, and is able to, so
\* after stop() no loop of the worker begins a poll.
C18_CancellationPermanent ==
  /\ [][ \A w \in Workers :
           cancelled[w] =>
             /\ cancelled'[w]
             /\ Stop(w) => UNCHANGED vars
             /\ \A s \in ValidInputs :
                  StartPersist(w, s)
                    => /\ tasks' = Upsert(tasks, taskId[w], s, now)
                       /\ Row(w)'.settings_json = JSON_stringify(s)
                       /\ starting'[w] = starting[w] + 1
             /\ StartLaunch(w)
                  => /\ startResult'[w][nStarts[w] + 1] = "ok"
                     /\ pc'[w][nStarts[w] + 1] = "stopped"
                     /\ last'[w][nStarts[w] + 1] = "none"
                     /\ tasks' = tasks
             /\ \A k \in Loops :
                  /\ (pc[w][k] = "sleep" /\ pc'[w][k] # "sleep")
                       => pc'[w][k] = "stopped" /\ last'[w][k] = "none"
                  /\ (pc[w][k] # "query") => pc'[w][k] # "query" ]_vars
  /\ [](\A w \in Workers :
          /\ (cancelled[w] /\ starting[w] > 0) => ENABLED StartLaunch(w)
          /\ \A k \in Loops :
               (cancelled[w] /\ pc[w][k] = "sleep") => ENABLED SleepWake(w, k))

\* A cancelled worker that was started twice: both start() calls stored
\* their settings, the record carries settings with a delay under the
\* schedule of its creation, and both loops have ended at the cancellation check without a poll.
C18_Witness ==
  \E w \in Workers :
    /\ cancelled[w]
    /\ nStarts[w] = 2
    /\ \A k \in 1..2 :
         startResult[w][k] = "ok" /\ pc[w][k] = "stopped" /\ last[w][k] = "none"
    /\ Row(w).settings_json =
         JSON_stringify([version |-> 1, initialDelayDuration |-> "PT5S"])
    /\ Row(w).next_run_start_at = 0

\* C19: the table changes only in a start() whose upsert completes (or by
\* the hand of a sibling process): no step of a loop, whatever the poll
\* found, and no stop(), rejected start() or failed upsert changes any
\* record.
C19_OnlyStartWrites ==
  [][ (tasks' # tasks)
        => /\ \/ \E w \in Workers : \E s \in ValidInputs :
                   StartPersist(w, s) /\ tasks' = Upsert(tasks, taskId[w], s, now)
              \/ \E id \in TaskIds : \E payload \in NewerPayloads :
                   SiblingRedefines(id, payload)
           /\ \A w \in Workers :
                /\ \A k \in Loops : ~LoopStep(w, k)
                /\ ~Stop(w)
                /\ ~StartLaunch(w)
                /\ \A s \in SettingsInputs :
                     ~StartInvalid(w, s) /\ ~StartPersistFails(w, s) ]_vars

\* A loop asleep after a poll step that found the task ready and returned
\* 'completed', the record still due and free as the poll found it.
C19_Witness ==
  \E w \in Workers : \E k \in Loops :
    /\ pc[w][k] = "sleep" /\ last[w][k] = "ready"
    /\ wakeAt[w][k] = now + WORK_CHECK_FREQUENCY
    /\ Row(w).next_run_start_at < now
    /\ Row(w).current_run_ticket = NULL
    /\ taskSettingsV1Schema_parse(JSON_parse(Row(w).settings_json))

\* C20: for a call without an identity, handle answers DENY unless the
\* permission is a read permission (and then ALLOW), and authorizeFilters
\* answers DENY whatever the permission; MAYBE is answered only by
\* authorizeFilters, for a permission of the catalog, to a caller with an
\* identity, and it comes with conditions.
C20_NoIdentityOnlyReads ==
  perm # NoCall =>
    /\ (perm.identity = NoIdentity /\ perm.op = "handle")
         => perm.response.result =
              (IF perm.request.permission.isRead THEN ALLOW ELSE DENY)
    /\ (perm.identity = NoIdentity /\ perm.op = "authorizeFilters")
         => perm.response = [result |-> DENY]
    /\ perm.response.result = MAYBE
         => /\ perm.op = "authorizeFilters"
            /\ perm.request.permission \in CatalogPermission
            /\ perm.identity # NoIdentity
            /\ "conditions" \in DOMAIN perm.response

\* A call of handle without an identity for a permission that is not a read
\* permission, answered DENY.
C20_Witness ==
  /\ perm # NoCall
  /\ perm.op = "handle"
  /\ perm.identity = NoIdentity
  /\ ~perm.request.permission.isRead
  /\ perm.request.permission \in CatalogPermission
  /\ perm.response.result = DENY

====
